---- MODULE Spec2Model ----
(***************************************************************************)
(* Model of allpix::DetectorModel (src/core/geometry/DetectorModel.cpp):  *)
(* the constructor that reads and validates a detector configuration, and *)
(* the queries getSupportLayers() and getSize().                           *)
(*                                                                         *)
(* Lengths are integers counting units of 0.05 (so 0.3 is 6, 1.0 is 20,   *)
(* 2.0 is 40, 5 is 100).  Every configured length that the code halves is *)
(* an even number of units, so x / 2.0 is exact, as it is for a double.   *)
(* A configuration value is the tuple of its components: <<6>> a scalar,  *)
(* <<20, 40>> a 2-vector, <<"c", "h", "i", "p">> a text.                   *)
(***************************************************************************)
EXTENDS Integers, Sequences, FiniteSets, TLC

VARIABLES
    reader,      \* reader_: the sections of the model file, in file order
    pc,          \* position of the constructor; where it threw, after an exception
    idx,         \* index of the next "support" section the constructor reads
    self,        \* the object under construction (its fields)
    model,       \* what the caller of the constructor holds: <<>> or <<object>>
    error,       \* the exception that left the constructor: <<>> or <<exception>>
    ret_layers,  \* result of the last getSupportLayers() call: <<>> or <<layers>>
    ret_size,    \* result of the last getSize() call: <<>> or <<size>>
    ret_configs, \* result of the last getConfigurations() call: <<>> or <<sections>>
    external,    \* the objects that build() has registered for the detector, by name
    build_error  \* the exception that left build(): <<>> or <<exception>>

vars == <<reader, pc, idx, self, model, error, ret_layers, ret_size, ret_configs,
          external, build_error>>

(***************************************************************************)
(* Bounds                                                                  *)
(***************************************************************************)
\* Largest number of "support" sections in a model file.
MaxLayers == 3

(***************************************************************************)
(* Vectors                                                                 *)
(***************************************************************************)
\* std::numeric_limits<double>::lowest() and ::max(), beyond every coordinate
DoubleLowest == -1000000
DoubleMax == 1000000

Half(x) == x \div 2
Abs(x) == IF x < 0 THEN -x ELSE x
Max2(a, b) == IF a > b THEN a ELSE b
Min2(a, b) == IF a < b THEN a ELSE b
VAdd(a, b) == <<a[1] + b[1], a[2] + b[2], a[3] + b[3]>>
VSub(a, b) == <<a[1] - b[1], a[2] - b[2], a[3] - b[3]>>
VHalf(a) == <<Half(a[1]), Half(a[2]), Half(a[3])>>

(***************************************************************************)
(* Texts                                                                   *)
(***************************************************************************)
SENSOR == <<"s", "e", "n", "s", "o", "r">>
CHIP == <<"c", "h", "i", "p">>
ABSOLUTE == <<"a", "b", "s", "o", "l", "u", "t", "e">>
G10 == <<"g", "1", "0">>
ALUMINUM == <<"a", "l", "u", "m", "i", "n", "u", "m">>

UpperLower ==
    << <<"A", "a">>, <<"B", "b">>, <<"C", "c">>, <<"D", "d">>, <<"E", "e">>,
       <<"F", "f">>, <<"G", "g">>, <<"H", "h">>, <<"I", "i">>, <<"J", "j">>,
       <<"K", "k">>, <<"L", "l">>, <<"M", "m">>, <<"N", "n">>, <<"O", "o">>,
       <<"P", "p">>, <<"Q", "q">>, <<"R", "r">>, <<"S", "s">>, <<"T", "t">>,
       <<"U", "u">>, <<"V", "v">>, <<"W", "w">>, <<"X", "x">>, <<"Y", "y">>,
       <<"Z", "z">> >>

\* ::tolower on one character
tolower(c) ==
    IF \E i \in DOMAIN UpperLower : UpperLower[i][1] = c
    THEN UpperLower[CHOOSE i \in DOMAIN UpperLower : UpperLower[i][1] = c][2]
    ELSE c

\* Mutant: the text is left as written
TransformTolower_Unchanged(s) == s

\* std::transform(s.begin(), s.end(), s.begin(), ::tolower)
TransformTolower(s) == [i \in DOMAIN s |-> tolower(s[i])]

(***************************************************************************)
(* The configuration reader                                                *)
(***************************************************************************)
\* A thrown exception
Exception(type, key) == [type |-> type, key |-> key]

\* catch(ConfigurationError&): the configuration exception classes
IsConfigurationError(e) ==
    e.type \in {"MissingKeyError", "InvalidKeyError", "InvalidValueError"}

Returned(v) == [ok |-> TRUE, val |-> v]
Thrown(e) == [ok |-> FALSE, err |-> e]

\* Configuration::has(key)
has(config, key) == key \in DOMAIN config

\* Configuration::get<T>(key) for a T of n components
get(config, key, n) ==
    IF ~has(config, key) THEN Thrown(Exception("MissingKeyError", key))
    ELSE IF Len(config[key]) # n THEN Thrown(Exception("InvalidKeyError", key))
    ELSE Returned(config[key])

\* Configuration::get<T>(key, def) for a T of n components
getDefault(config, key, n, def) ==
    IF has(config, key) THEN get(config, key, n) ELSE Returned(def)

\* Configuration::get<std::string>(key, def)
getText(config, key, def) ==
    IF has(config, key) THEN Returned(config[key]) ELSE Returned(def)

\* Configuration::merge(other), keys of other replacing those of config
merge(config, other) ==
    [k \in DOMAIN config \cup DOMAIN other |->
        IF k \in DOMAIN other THEN other[k] ELSE config[k]]

RECURSIVE MergeAll(_, _)
MergeAll(config, sections) ==
    IF sections = <<>> THEN config
    ELSE MergeAll(merge(config, Head(sections).config), Tail(sections))

\* A section of a model file
Section(name, config) == [name |-> name, config |-> config]

IsUnnamed(section) == section.name = ""
IsSupport(section) == section.name = "support"

\* ConfigReader::getHeaderConfiguration()
getHeaderConfiguration(r) == MergeAll(<<>>, SelectSeq(r, IsUnnamed))

\* ConfigReader::getConfigurations("support")
getSupportConfigurations(r) == SelectSeq(r, IsSupport)

(***************************************************************************)
(* The object: fields and the getters declared with the class              *)
(***************************************************************************)
\* The fields before the constructor body runs
NewObject ==
    [ number_of_pixels_ |-> <<0, 0>>,
      pixel_size_ |-> <<0, 0>>,
      sensor_thickness_ |-> 0,
      sensor_excess_ |-> <<0, 0, 0, 0>>,   \* top, right, bottom, left
      implant_size_ |-> <<0, 0, 0>>,
      implant_material_ |-> <<>>,
      implant_offset_ |-> <<0, 0>>,
      chip_thickness_ |-> 0,
      support_layers_ |-> <<>> ]

\* DetectorModel::getGridSize()
getGridSize(m) ==
    << m.number_of_pixels_[1] * m.pixel_size_[1],
       m.number_of_pixels_[2] * m.pixel_size_[2], 0 >>

\* DetectorModel::getCenter(): the centre of the first pixel is the origin
getCenter(m) ==
    << Half(getGridSize(m)[1]) - Half(m.pixel_size_[1]),
       Half(getGridSize(m)[2]) - Half(m.pixel_size_[2]), 0 >>

\* DetectorModel::getSensorSize(): the pixel grid plus the excess on each side
getSensorSize(m) ==
    VAdd(getGridSize(m),
         << m.sensor_excess_[2] + m.sensor_excess_[4],
            m.sensor_excess_[1] + m.sensor_excess_[3],
            m.sensor_thickness_ >>)

\* DetectorModel::getSensorCenter()
getSensorCenter(m) ==
    VAdd(getCenter(m),
         << Half(m.sensor_excess_[2] - m.sensor_excess_[4]),
            Half(m.sensor_excess_[1] - m.sensor_excess_[3]), 0 >>)

\* DetectorModel::getChipSize()
getChipSize(m) == VAdd(getGridSize(m), <<0, 0, m.chip_thickness_>>)

\* DetectorModel::getChipCenter(): the chip lies on the sensor, towards +z
getChipCenter(m) ==
    VAdd(getCenter(m),
         <<0, 0, Half(getSensorSize(m)[3]) + Half(getChipSize(m)[3])>>)

\* SupportLayer's constructor, as addSupportLayer() calls it
SupportLayer(size, thickness, offset, material, location, hole_size, hole_offset) ==
    [ size_ |-> <<size[1], size[2], thickness>>,
      offset_ |-> offset,
      material_ |-> material,
      location_ |-> location,
      hole_size_ |-> <<hole_size[1], hole_size[2], thickness>>,
      hole_offset_ |-> hole_offset,
      center_ |-> <<0, 0, 0>> ]

(***************************************************************************)
(* DetectorModel::DetectorModel                                            *)
(***************************************************************************)
\* The first exception among results, in the order of the reads
RECURSIVE FirstThrown(_)
FirstThrown(results) ==
    IF results = <<>> THEN <<>>
    ELSE IF ~Head(results).ok THEN <<Head(results).err>>
    ELSE FirstThrown(Tail(results))

\* Mutant: the fallback also swallows a failure of the 2D read
ResolveImplantSize_CatchAll(config, pixel_size) ==
    LET three == get(config, "implant_size", 3)
        implant_area == getDefault(config, "implant_size", 2, pixel_size)
    IN  IF three.ok THEN three
        ELSE IF implant_area.ok
        THEN Returned(<<implant_area.val[1], implant_area.val[2], 0>>)
        ELSE Returned(<<pixel_size[1], pixel_size[2], 0>>)

\* try { get<XYZVector>("implant_size") } catch(ConfigurationError&)
\*     { get<XYVector>("implant_size", pixel_size), z = 0 }
ResolveImplantSize(config, pixel_size) ==
    LET three == get(config, "implant_size", 3) IN
    IF three.ok THEN three
    ELSE IF ~IsConfigurationError(three.err) THEN three
    ELSE LET implant_area == getDefault(config, "implant_size", 2, pixel_size) IN
         IF implant_area.ok
         THEN Returned(<<implant_area.val[1], implant_area.val[2], 0>>)
         ELSE implant_area

\* Mutant: exclusive bounds
ImplantSizeTooLarge_Exclusive(implant_size, pixel_size, sensor_z) ==
    \/ implant_size[1] >= pixel_size[1] \/ implant_size[2] >= pixel_size[2]
    \/ implant_size[3] >= sensor_z

\* The two implant_size checks: TRUE when an InvalidValueError is thrown
ImplantSizeTooLarge(implant_size, pixel_size, sensor_z) ==
    \/ implant_size[1] > pixel_size[1] \/ implant_size[2] > pixel_size[2]
    \/ implant_size[3] > sensor_z

\* Mutant: exclusive bound
ImplantExceedsCell_Exclusive(implant_offset, implant_size, pixel_size) ==
    \/ Abs(implant_offset[1]) + Half(implant_size[1]) >= Half(pixel_size[1])
    \/ Abs(implant_offset[2]) + Half(implant_size[2]) >= Half(pixel_size[2])

\* The implant_offset check: TRUE when an InvalidValueError is thrown
ImplantExceedsCell(implant_offset, implant_size, pixel_size) ==
    \/ Abs(implant_offset[1]) + Half(implant_size[1]) > Half(pixel_size[1])
    \/ Abs(implant_offset[2]) + Half(implant_size[2]) > Half(pixel_size[2])

\* location != "sensor" && location != "chip" && location != "absolute"
BadLocation(location) ==
    location # SENSOR /\ location # CHIP /\ location # ABSOLUTE

\* The exception of a rejected location
LocationError == Exception("InvalidValueError", "location")

\* The offset read of one support section, which depends on the location
SupportOffset(support_config, location) ==
    IF location = ABSOLUTE THEN get(support_config, "offset", 3)
    ELSE LET xy_offset == getDefault(support_config, "offset", 2, <<0, 0>>) IN
         IF xy_offset.ok THEN Returned(<<xy_offset.val[1], xy_offset.val[2], 0>>)
         ELSE xy_offset

\* The body of the loop over the "support" sections: the layer, or the exception
ReadSupport(support_config) ==
    LET thickness == get(support_config, "thickness", 1)
        size == get(support_config, "size", 2)
        location == TransformTolower(getText(support_config, "location", CHIP).val)
        early == FirstThrown(<<thickness, size>>)
    IN  IF early # <<>> THEN Thrown(early[1])
        ELSE IF BadLocation(location) THEN Thrown(LocationError)
        ELSE LET offset == SupportOffset(support_config, location)
                 material == TransformTolower(getText(support_config, "material", G10).val)
                 hole_size == getDefault(support_config, "hole_size", 2, <<0, 0>>)
                 hole_offset == getDefault(support_config, "hole_offset", 2, <<0, 0>>)
                 late == FirstThrown(<<offset, hole_size, hole_offset>>)
             IN  IF late # <<>> THEN Thrown(late[1])
                 ELSE Returned(SupportLayer(size.val, thickness.val[1], offset.val,
                                            material, location,
                                            hole_size.val, hole_offset.val))

\* Mutant: the object built so far reaches the caller
Unwind_Partial(object) == <<object>>

\* What an exception leaves of the object being constructed: the constructor
\* never completes, so the caller obtains no object
Unwind(object) == <<>>

\* The constructor is running and has come to the step at
Running(at) == pc = at /\ error = <<>>

\* An exception e leaves the constructor
Throw(e) ==
    /\ error' = <<e>>
    /\ model' = Unwind(self)
    /\ UNCHANGED <<reader, pc, idx, self, ret_layers, ret_size, ret_configs,
                   external, build_error>>

\* A step of the constructor that stores fields and goes on at next
Proceed(fields, next) ==
    /\ pc' = next
    /\ self' = fields
    /\ UNCHANGED <<reader, idx, model, error, ret_layers, ret_size, ret_configs,
                   external, build_error>>

\* number_of_pixels, pixel_size, sensor_thickness: required
ReadPixelGrid ==
    /\ Running("pixel_grid")
    /\ LET config == getHeaderConfiguration(reader)
           number_of_pixels == get(config, "number_of_pixels", 2)
           pixel_size == get(config, "pixel_size", 2)
           sensor_thickness == get(config, "sensor_thickness", 1)
           thrown == FirstThrown(<<number_of_pixels, pixel_size, sensor_thickness>>)
       IN  IF thrown # <<>> THEN Throw(thrown[1])
           ELSE Proceed([self EXCEPT !.number_of_pixels_ = number_of_pixels.val,
                                     !.pixel_size_ = pixel_size.val,
                                     !.sensor_thickness_ = sensor_thickness.val[1]],
                        "sensor_excess")

\* Mutant: a side that is not set is 0, whatever sensor_excess says
SensorExcessSide_Zero(config, key, default_sensor_excess) ==
    getDefault(config, key, 1, <<0>>)

\* config.get<double>("sensor_excess_<side>", default_sensor_excess)
SensorExcessSide(config, key, default_sensor_excess) ==
    getDefault(config, key, 1, default_sensor_excess)

\* sensor_excess and the four sides, each defaulting to sensor_excess
ReadSensorExcess ==
    /\ Running("sensor_excess")
    /\ LET config == getHeaderConfiguration(reader)
           default_sensor_excess == getDefault(config, "sensor_excess", 1, <<0>>)
           def == IF default_sensor_excess.ok THEN default_sensor_excess.val ELSE <<0>>
           top == SensorExcessSide(config, "sensor_excess_top", def)
           bottom == SensorExcessSide(config, "sensor_excess_bottom", def)
           left == SensorExcessSide(config, "sensor_excess_left", def)
           right == SensorExcessSide(config, "sensor_excess_right", def)
           thrown == FirstThrown(<<default_sensor_excess, top, bottom, left, right>>)
       IN  IF thrown # <<>> THEN Throw(thrown[1])
           ELSE Proceed([self EXCEPT !.sensor_excess_ =
                            <<top.val[1], right.val[1], bottom.val[1], left.val[1]>>],
                        "implant_size")

\* implant_size (3D, else 2D with z = 0, else the pixel size) and implant_material
ReadImplantSize ==
    /\ Running("implant_size")
    /\ LET config == getHeaderConfiguration(reader)
           implant_size == ResolveImplantSize(config, self.pixel_size_)
       IN  IF ~implant_size.ok THEN Throw(implant_size.err)
           ELSE IF ImplantSizeTooLarge(implant_size.val, self.pixel_size_,
                                       getSensorSize(self)[3])
           THEN Throw(Exception("InvalidValueError", "implant_size"))
           ELSE Proceed([self EXCEPT !.implant_size_ = implant_size.val,
                                     !.implant_material_ =
                                        getText(config, "implant_material", ALUMINUM).val],
                        "implant_offset")

\* implant_offset, which keeps the implant inside the pixel cell
ReadImplantOffset ==
    /\ Running("implant_offset")
    /\ LET config == getHeaderConfiguration(reader)
           implant_offset == getDefault(config, "implant_offset", 2, <<0, 0>>)
       IN  IF ~implant_offset.ok THEN Throw(implant_offset.err)
           ELSE IF ImplantExceedsCell(implant_offset.val, self.implant_size_,
                                      self.pixel_size_)
           THEN Throw(Exception("InvalidValueError", "implant_offset"))
           ELSE Proceed([self EXCEPT !.implant_offset_ = implant_offset.val],
                        "chip_thickness")

\* chip_thickness
ReadChipThickness ==
    /\ Running("chip_thickness")
    /\ LET config == getHeaderConfiguration(reader)
           chip_thickness == getDefault(config, "chip_thickness", 1, <<0>>)
       IN  IF ~chip_thickness.ok THEN Throw(chip_thickness.err)
           ELSE Proceed([self EXCEPT !.chip_thickness_ = chip_thickness.val[1]],
                        "support")

\* One turn of the loop over the "support" sections
ReadSupportLayer ==
    /\ Running("support")
    /\ idx <= Len(getSupportConfigurations(reader))
    /\ LET layer == ReadSupport(getSupportConfigurations(reader)[idx].config) IN
       IF ~layer.ok THEN Throw(layer.err)
       ELSE /\ self' = [self EXCEPT !.support_layers_ = Append(@, layer.val)]
            /\ idx' = idx + 1
            /\ UNCHANGED <<reader, pc, model, error, ret_layers, ret_size, ret_configs,
                           external, build_error>>

\* The constructor returns: the caller holds the object
ConstructorReturns ==
    /\ Running("support")
    /\ idx > Len(getSupportConfigurations(reader))
    /\ pc' = "constructed"
    /\ model' = <<self>>
    /\ UNCHANGED <<reader, idx, self, error, ret_layers, ret_size, ret_configs,
                   external, build_error>>

(***************************************************************************)
(* DetectorModel::getSupportLayers                                         *)
(***************************************************************************)
\* The offset of one layer, given the two running offsets
LayerOffset(layer, sensor_offset, chip_offset) ==
    IF layer.location_ = SENSOR
    THEN <<layer.offset_[1], layer.offset_[2], sensor_offset - Half(layer.size_[3])>>
    ELSE IF layer.location_ = CHIP
    THEN <<layer.offset_[1], layer.offset_[2], chip_offset + Half(layer.size_[3])>>
    ELSE layer.offset_

\* Mutant: the sensor-side offset is never advanced
NextSensorOffset_Stuck(layer, sensor_offset) == sensor_offset

\* sensor_offset after the layer
NextSensorOffset(layer, sensor_offset) ==
    IF layer.location_ = SENSOR THEN sensor_offset - layer.size_[3] ELSE sensor_offset

\* Mutant: every layer that is not on the sensor side advances the chip-side offset
NextChipOffset_AbsoluteCounts(layer, chip_offset) ==
    IF layer.location_ = SENSOR THEN chip_offset ELSE chip_offset + layer.size_[3]

\* Mutant: a layer on the sensor side advances the chip-side offset as well
NextChipOffset_SensorCounts(layer, chip_offset) ==
    IF layer.location_ = ABSOLUTE THEN chip_offset ELSE chip_offset + layer.size_[3]

\* chip_offset after the layer
NextChipOffset(layer, chip_offset) ==
    IF layer.location_ = SENSOR THEN chip_offset
    ELSE IF layer.location_ = CHIP THEN chip_offset + layer.size_[3]
    ELSE chip_offset

\* The loop over ret_layers
RECURSIVE PlaceLayers(_, _, _, _)
PlaceLayers(m, layers, sensor_offset, chip_offset) ==
    IF layers = <<>> THEN <<>>
    ELSE LET layer == Head(layers)
             offset == LayerOffset(layer, sensor_offset, chip_offset)
         IN  <<[layer EXCEPT !.center_ = VAdd(getCenter(m), offset)]>>
             \o PlaceLayers(m, Tail(layers),
                            NextSensorOffset(layer, sensor_offset),
                            NextChipOffset(layer, chip_offset))

getSupportLayers(m) ==
    PlaceLayers(m, m.support_layers_,
                -Half(getSensorSize(m)[3]),
                Half(getSensorSize(m)[3]) + getChipSize(m)[3])

(***************************************************************************)
(* DetectorModel::getSize                                                  *)
(***************************************************************************)
\* max and min before the loops
EmptyBox ==
    [ max |-> <<DoubleLowest, DoubleLowest, DoubleLowest>>,
      min |-> <<DoubleMax, DoubleMax, DoubleMax>> ]

\* One turn of either loop: max and min take in the box of centre and size
Enclose(box, center, size) ==
    LET hi == VAdd(center, VHalf(size))
        lo == VSub(center, VHalf(size))
    IN  [ max |-> <<Max2(box.max[1], hi[1]), Max2(box.max[2], hi[2]),
                    Max2(box.max[3], hi[3])>>,
          min |-> <<Min2(box.min[1], lo[1]), Min2(box.min[2], lo[2]),
                    Min2(box.min[3], lo[3])>> ]

\* Mutant: the loop over the support layers is left out
EncloseLayers_None(box, layers) == box

\* The loop over the support layers
RECURSIVE EncloseLayers(_, _)
EncloseLayers(box, layers) ==
    IF layers = <<>> THEN box
    ELSE EncloseLayers(Enclose(box, Head(layers).center_, Head(layers).size_),
                       Tail(layers))

\* max and min after both loops
Corners(m) ==
    EncloseLayers(Enclose(Enclose(EmptyBox, getSensorCenter(m), getSensorSize(m)),
                          getChipCenter(m), getChipSize(m)),
                  getSupportLayers(m))

\* Mutant: the extent from corner to corner, not mirrored about the centre
MirroredSize_CornerToCorner(max, min, center) == max - min

\* The size of one mirrored axis
MirroredSize(max, min, center) == 2 * Max2(max - center, center - min)

\* Mutant: z mirrored about the centre like x and y
DepthSize_Mirrored(max, min, center) == 2 * Max2(max - center, center - min)

\* The size along z
DepthSize(max, min, center) == (max - center) + (center - min)

getSize(m) ==
    LET box == Corners(m)
        center == getCenter(m)
    IN  << MirroredSize(box.max[1], box.min[1], center[1]),
           MirroredSize(box.max[2], box.min[2], center[2]),
           DepthSize(box.max[3], box.min[3], center[3]) >>

(***************************************************************************)
(* DetectorModel::getConfigurations                                        *)
(***************************************************************************)
IsNamed(section) == section.name # ""

\* The loop over reader_.getConfigurations(): unnamed sections are merged into
\* global_config_, the others are pushed back
RECURSIVE SortSections(_, _)
SortSections(sorted, sections) ==
    IF sections = <<>> THEN sorted
    ELSE LET config == Head(sections) IN
         SortSections(IF config.name = ""
                      THEN [sorted EXCEPT !.global_config_ = merge(@, config.config)]
                      ELSE [sorted EXCEPT !.configurations = Append(@, config)],
                      Tail(sections))

\* Mutant: the global section is pushed back after the named sections
getConfigurations_GlobalLast(r) ==
    LET sorted == SortSections([global_config_ |-> getHeaderConfiguration(r),
                                configurations |-> <<>>], r)
    IN  sorted.configurations \o <<Section("", sorted.global_config_)>>

getConfigurations(r) ==
    LET sorted == SortSections([global_config_ |-> getHeaderConfiguration(r),
                                configurations |-> <<>>], r)
    IN  <<Section("", sorted.global_config_)>> \o sorted.configurations

(***************************************************************************)
(* Queries of a constructed model                                          *)
(***************************************************************************)
\* Mutant: getSupportLayers() works on support_layers_ itself, not on a copy
ConstObject_PlacedInStore(m) == [m EXCEPT !.support_layers_ = getSupportLayers(m)]

\* The object after a const member function has run: the queries work on copies
\* (auto ret_layers = support_layers_) and on locals
ConstObject(m) == m

CallGetSupportLayers ==
    /\ pc = "constructed"
    /\ ret_layers' = <<getSupportLayers(model[1])>>
    /\ model' = <<ConstObject(model[1])>>
    /\ UNCHANGED <<reader, pc, idx, self, error, ret_size, ret_configs, external,
                   build_error>>

CallGetSize ==
    /\ pc = "constructed"
    /\ ret_size' = <<getSize(model[1])>>
    /\ model' = <<ConstObject(model[1])>>
    /\ UNCHANGED <<reader, pc, idx, self, error, ret_layers, ret_configs, external,
                   build_error>>

CallGetConfigurations ==
    /\ pc = "constructed"
    /\ ret_configs' = <<getConfigurations(reader)>>
    /\ model' = <<ConstObject(model[1])>>
    /\ UNCHANGED <<reader, pc, idx, self, error, ret_layers, ret_size, external,
                   build_error>>

(***************************************************************************)
(* DetectorConstructionG4::build, up to the sensor volume                  *)
(***************************************************************************)
\* std::numeric_limits<double>::epsilon(), below one unit of length
Epsilon == 0

SILICON == <<"s", "i", "l", "i", "c", "o", "n">>

\* The keys of materials_ that build() looks up
Materials == {SILICON, ALUMINUM}

\* The implants are deep enough to be built
HasImplants(m) == m.implant_size_[3] > Epsilon

\* sensor_solid after the IMPLANTS block
SensorSolid(m) ==
    IF HasImplants(m) THEN "sensor_implant_subtraction" ELSE "sensor_box"

\* The solid that the logical volume "sensor_log" is made of
SensorLogSolid(m) == "sensor_box"

\* The objects registered up to the implants
WrapperObjects(m) ==
    "wrapper_log" :> [solid |-> "wrapper_box", half |-> VHalf(getSize(m))]

\* The objects registered for the sensor
SensorObjects(m) ==
    "sensor_log" :> [solid |-> SensorLogSolid(m), half |-> VHalf(getSensorSize(m))]

\* The objects registered for the implants
ImplantObjects(m) ==
    IF HasImplants(m)
    THEN "implants_log" :> [solid |-> "implant_union", half |-> VHalf(m.implant_size_)]
    ELSE <<>>

\* build() for the detector of the model, from the wrapper to the sensor volume
Build ==
    /\ pc = "constructed"
    /\ IF HasImplants(model[1]) /\ model[1].implant_material_ \notin Materials
       THEN /\ external' = WrapperObjects(model[1])
            /\ build_error' = <<Exception("ModuleError", "implant_material")>>
       ELSE /\ external' = WrapperObjects(model[1]) @@ ImplantObjects(model[1])
                           @@ SensorObjects(model[1])
            /\ build_error' = <<>>
    /\ UNCHANGED <<reader, pc, idx, self, model, error, ret_layers, ret_size,
                   ret_configs>>

(***************************************************************************)
(* Model files                                                             *)
(***************************************************************************)
\* A key that the file does not set
Absent == <<>>

\* The text of key and value, nothing when the file does not set the key
Key(key, value) == IF value = Absent THEN <<>> ELSE key :> value

\* The sequences of at most n elements of S
SeqsUpTo(S, n) == UNION {[1..k -> S] : k \in 0..n}

\* A file: the unnamed section, then the support sections
File(header, supports) ==
    <<Section("", header)>> \o [i \in DOMAIN supports |-> Section("support", supports[i])]

Header(number_of_pixels, pixel_size, sensor_thickness, chip_thickness) ==
    Key("number_of_pixels", number_of_pixels) @@ Key("pixel_size", pixel_size)
    @@ Key("sensor_thickness", sensor_thickness) @@ Key("chip_thickness", chip_thickness)

Excess(all, top, bottom, left, right) ==
    Key("sensor_excess", all) @@ Key("sensor_excess_top", top)
    @@ Key("sensor_excess_bottom", bottom) @@ Key("sensor_excess_left", left)
    @@ Key("sensor_excess_right", right)

Implant(implant_size, implant_offset) ==
    Key("implant_size", implant_size) @@ Key("implant_offset", implant_offset)

Support(thickness, size, location, offset) ==
    Key("thickness", thickness) @@ Key("size", size) @@ Key("location", location)
    @@ Key("offset", offset)

\* Support sections that the constructor accepts
StackSupports ==
    { Support(<<20>>, <<60, 60>>, SENSOR, Absent),
      Support(<<40>>, <<60, 60>>, <<"S", "E", "N", "S", "O", "R">>, <<10, 0>>),
      Support(<<0>>, <<60, 60>>, <<"S", "e", "n", "s", "o", "r">>, Absent),
      Support(<<40>>, <<60, 60>>, Absent, Absent),
      Support(<<20>>, <<200, 20>>, <<"C", "h", "i", "p">>, <<0, -10>>)
          @@ Key("material", <<"K", "a", "p", "t", "o", "n">>)
          @@ Key("hole_size", <<4, 4>>),
      Support(<<40>>, <<60, 60>>, <<"A", "B", "S", "O", "L", "U", "T", "E">>,
              <<10, -10, 80>>) }

\* A few more that it accepts
PlainSupports ==
    { Support(<<40>>, <<60, 60>>, Absent, Absent),
      Support(<<20>>, <<60, 60>>, <<"s", "E", "n", "s", "o", "r">>, Absent),
      Support(<<40>>, <<60, 60>>, <<"a", "b", "S", "O", "L", "u", "t", "e">>, <<0, 10, 70>>) }

\* Support sections that it rejects
ErrorSupports ==
    { Support(Absent, <<60, 60>>, SENSOR, Absent),
      Support(<<20>>, <<60>>, CHIP, Absent),
      Support(<<20>>, <<60, 60>>, <<"T", "o", "p">>, Absent),
      Support(<<20>>, <<60, 60>>, ABSOLUTE, <<10, 10>>) }

\* Accepted sections, then a rejected one or none: the constructor reads no
\* section after one that it rejects
EndingInError(n) ==
    { accepted \o last :
        accepted \in SeqsUpTo(PlainSupports, n - 1),
        last \in {<<>>} \cup {<<rejected>> : rejected \in ErrorSupports} }

\* Files whose support layers stack on sensors and chips of several thicknesses
StackFiles ==
    { File(Header(<<2, 1>>, <<20, 40>>, <<6>>, chip_thickness), supports) :
        chip_thickness \in { Absent, <<4>> },
        supports \in SeqsUpTo(StackSupports, MaxLayers) }
    \cup
    { File(Header(<<2, 1>>, <<20, 40>>, <<10>>, <<4>>), supports) :
        supports \in SeqsUpTo(StackSupports, 2) }

\* Files that vary the implant, and that miss required keys
ImplantFiles ==
    { File(Header(<<2, 1>>, <<20, 40>>, <<6>>, <<4>>) @@ Implant(is, io), supports) :
        is \in { Absent, <<20>>, <<20, 40>>, <<10, 10>>, <<30, 10>>, <<20, 40, 6>>,
                 <<10, 10, 2>>, <<10, 10, 8>>, <<10, 50, 2>>, <<10, 10, 2, 2>> },
        io \in { Absent, <<0, 0>>, <<5, 0>>, <<0, -16>>, <<-6, 15>>, <<5>> },
        supports \in SeqsUpTo(PlainSupports, 1) }
    \cup
    { File(Header(np, ps, st, Absent), supports) :
        np \in {Absent, <<2, 1>>}, ps \in {Absent, <<20, 40>>}, st \in {Absent, <<6>>},
        supports \in SeqsUpTo(PlainSupports, 1) }

\* Files that vary the sensor excess, with support sections that may be rejected
ExcessFiles ==
    { File(header, supports) :
        header \in
            { Header(<<2, 1>>, <<20, 40>>, <<6>>, <<4>>) @@ excess :
                excess \in { Excess(Absent, Absent, Absent, Absent, Absent),
                             Excess(Absent, Absent, Absent, <<20>>, <<100>>),
                             Excess(<<100>>, Absent, Absent, Absent, Absent),
                             Excess(<<100>>, <<40>>, Absent, Absent, Absent),
                             Excess(<<100>>, <<40>>, <<20, 20>>, Absent, Absent) } }
            \cup { Header(<<2, 1>>, <<20, 40>>, <<6>>, <<4, 4>>) },
        supports \in EndingInError(MaxLayers) }

\* A second unnamed section
MoreGlobal ==
    { Key("chip_thickness", <<4>>),
      Key("sensor_thickness", <<10>>) @@ Key("sensor_excess", <<100>>),
      Key("implant_size", <<10, 10, 2>>)
          @@ Key("implant_material", <<"g", "o", "l", "d">>) }

\* Files with further unnamed sections before and after the support sections
SectionFiles ==
    { <<Section("", Header(<<2, 1>>, <<20, 40>>, <<6>>, Absent)
                    @@ Key("implant_size", <<20, 40>>))>>
      \o before
      \o [i \in DOMAIN supports |-> Section("support", supports[i])]
      \o after :
        before \in {<<>>} \cup {<<Section("", more)>> : more \in MoreGlobal},
        after \in {<<>>} \cup {<<Section("", more)>> : more \in MoreGlobal},
        supports \in SeqsUpTo(PlainSupports, 1) }

Files == StackFiles \cup ImplantFiles \cup ExcessFiles \cup SectionFiles

(***************************************************************************)
(* Specification                                                           *)
(***************************************************************************)
Init ==
    /\ reader \in Files
    /\ pc = "pixel_grid"
    /\ idx = 1
    /\ self = NewObject
    /\ model = <<>>
    /\ error = <<>>
    /\ ret_layers = <<>>
    /\ ret_size = <<>>
    /\ ret_configs = <<>>
    /\ external = <<>>
    /\ build_error = <<>>

Next ==
    \/ ReadPixelGrid
    \/ ReadSensorExcess
    \/ ReadImplantSize
    \/ ReadImplantOffset
    \/ ReadChipThickness
    \/ ReadSupportLayer
    \/ ConstructorReturns
    \/ CallGetSupportLayers
    \/ CallGetSize
    \/ CallGetConfigurations
    \/ Build

Spec == Init /\ [][Next]_vars

(***************************************************************************)
(* Properties                                                              *)
(***************************************************************************)
\* The model that the queries read, its stored layers and the "support" sections
Built == model[1]
Stored == Built.support_layers_
Declared == getSupportConfigurations(reader)

IsSensorLayer(layer) == layer.location_ = SENSOR

\* The summed thickness of the layers before the k-th that have the location
RECURSIVE ThicknessBefore(_, _, _)
ThicknessBefore(layers, k, location) ==
    IF k <= 1 THEN 0
    ELSE ThicknessBefore(layers, k - 1, location)
         + (IF layers[k - 1].location_ = location THEN layers[k - 1].size_[3] ELSE 0)

Thicknesses(layers) == [i \in DOMAIN layers |-> layers[i].size_[3]]
DepthsBelowCenter(m, layers) ==
    [i \in DOMAIN layers |-> layers[i].center_[3] - getCenter(m)[3]]

\* C1: getSupportLayers() places the k-th layer on the sensor side at
\* z = -sensorThickness/2 - (thickness of the earlier sensor layers) - own/2 and
\* the k-th layer on the chip side at z = sensorThickness/2 + chipThickness +
\* (thickness of the earlier chip layers) + own/2, each added to getCenter();
\* a sensor of thickness 0.3 with sensor layers of thickness 1.0 then 2.0 has
\* them at z-offsets -0.65 and -2.15 (6, 20, 40, -13 and -43 units of 0.05).
C1_StackedOffsets ==
    ret_layers # <<>> =>
        LET placed == ret_layers[1] IN
        /\ Len(placed) = Len(Stored)
        /\ \A k \in DOMAIN Stored :
            /\ Stored[k].location_ = SENSOR =>
                 placed[k].center_ =
                    VAdd(getCenter(Built),
                         << Stored[k].offset_[1], Stored[k].offset_[2],
                            -Half(Built.sensor_thickness_)
                            - ThicknessBefore(Stored, k, SENSOR)
                            - Half(Stored[k].size_[3]) >>)
            /\ Stored[k].location_ = CHIP =>
                 placed[k].center_ =
                    VAdd(getCenter(Built),
                         << Stored[k].offset_[1], Stored[k].offset_[2],
                            Half(Built.sensor_thickness_) + Built.chip_thickness_
                            + ThicknessBefore(Stored, k, CHIP)
                            + Half(Stored[k].size_[3]) >>)
        /\ ( /\ Built.sensor_thickness_ = 6
             /\ Thicknesses(SelectSeq(Stored, IsSensorLayer)) = <<20, 40>> )
           => DepthsBelowCenter(Built, SelectSeq(placed, IsSensorLayer)) = <<-13, -43>>

\* C1 witness: the query has placed sensor layers of thickness 1.0 then 2.0 on a
\* sensor of thickness 0.3, together with a layer on the chip side
C1_Witness ==
    /\ ret_layers # <<>>
    /\ Built.sensor_thickness_ = 6
    /\ Thicknesses(SelectSeq(Stored, IsSensorLayer)) = <<20, 40>>
    /\ \E k \in DOMAIN Stored : Stored[k].location_ = CHIP /\ Stored[k].size_[3] > 0

\* C2: in every model that construction accepts, of two support layers i < j at
\* the same location "sensor" (or "chip"), layer j is placed at a strictly smaller
\* (or strictly larger) z than layer i.
C2_StrictlyFarther ==
    ret_layers # <<>> =>
        LET placed == ret_layers[1] IN
        \A i, j \in DOMAIN placed :
            i < j =>
                /\ (placed[i].location_ = SENSOR /\ placed[j].location_ = SENSOR)
                       => placed[j].center_[3] < placed[i].center_[3]
                /\ (placed[i].location_ = CHIP /\ placed[j].location_ = CHIP)
                       => placed[j].center_[3] > placed[i].center_[3]

RemoveAt(s, p) == SubSeq(s, 1, p - 1) \o SubSeq(s, p + 1, Len(s))
InsertAt(s, p, x) == SubSeq(s, 1, p - 1) \o <<x>> \o SubSeq(s, p, Len(s))
WithLayers(m, layers) == [m EXCEPT !.support_layers_ = layers]

\* An absolute layer to insert
InsertedLayer ==
    SupportLayer(<<60, 60>>, 20, <<4, -6, 30>>, G10, ABSOLUTE, <<0, 0>>, <<0, 0>>)

\* C3: a layer with location "absolute" is placed at getCenter() plus its declared
\* offset, all three components as declared, and removing it from the declared
\* sequence, or inserting an absolute layer anywhere in it, leaves the centers of
\* the other layers as they were.
C3_AbsoluteLeavesStack ==
    ret_layers # <<>> =>
        LET placed == ret_layers[1] IN
        /\ \A k \in DOMAIN Stored :
              Stored[k].location_ = ABSOLUTE =>
                 /\ placed[k].center_ =
                        VAdd(getCenter(Built), Declared[k].config["offset"])
                 /\ getSupportLayers(WithLayers(Built, RemoveAt(Stored, k)))
                        = RemoveAt(placed, k)
        /\ \A p \in 1..(Len(Stored) + 1) :
              RemoveAt(getSupportLayers(WithLayers(Built, InsertAt(Stored, p, InsertedLayer))), p)
                  = placed

\* C3 witness: an absolute layer of some thickness was placed before a layer that
\* stacks on the chip and before one that stacks on the sensor
C3_Witness ==
    /\ ret_layers # <<>>
    /\ \E p, q, r \in DOMAIN Stored :
          /\ p < q /\ p < r
          /\ Stored[p].location_ = ABSOLUTE /\ Stored[p].size_[3] > 0
          /\ Stored[p].offset_[3] # 0
          /\ Stored[q].location_ = CHIP
          /\ Stored[r].location_ = SENSOR

\* The sensor, the chip and every placed support layer, each a centre and a size
Elements(m) ==
    LET placed == getSupportLayers(m) IN
    { [center |-> getSensorCenter(m), size |-> getSensorSize(m)],
      [center |-> getChipCenter(m), size |-> getChipSize(m)] }
    \cup { [center |-> placed[k].center_, size |-> placed[k].size_] : k \in DOMAIN placed }

Greatest(S) == CHOOSE x \in S : \A y \in S : y <= x
Least(S) == CHOOSE x \in S : \A y \in S : x <= y

\* The extreme coordinates of the elements along axis a
MaxCorner(m, a) == Greatest({e.center[a] + Half(e.size[a]) : e \in Elements(m)})
MinCorner(m, a) == Least({e.center[a] - Half(e.size[a]) : e \in Elements(m)})

\* The larger of the two one-sided extents along axis a
LargerExtent(m, a) ==
    Max2(MaxCorner(m, a) - getCenter(m)[a], getCenter(m)[a] - MinCorner(m, a))

\* Sensor excess left = 1, right = 5, top = bottom = 0, and no support layers
ExcessOneAndFive ==
    Built.sensor_excess_ = <<0, 100, 0, 20>> /\ Stored = <<>>

\* C4, as amended: getSize() returns x and y sizes of twice the larger one-sided
\* extent of the elements about getCenter(); with sensor excess left = 1,
\* right = 5 and no support layers the x size is the width of the pixel grid
\* plus 2 * 5 (20 and 100 units of 0.05 give the grid plus 200).
C4_MirroredPlane ==
    ret_size # <<>> =>
        /\ ret_size[1][1] = 2 * LargerExtent(Built, 1)
        /\ ret_size[1][2] = 2 * LargerExtent(Built, 2)
        /\ ExcessOneAndFive => ret_size[1][1] = getGridSize(Built)[1] + 200

\* C4 as stated: the same, with an x size of 2 * 5 = 10 in the example.
C4_Original ==
    ret_size # <<>> =>
        /\ ret_size[1][1] = 2 * LargerExtent(Built, 1)
        /\ ret_size[1][2] = 2 * LargerExtent(Built, 2)
        /\ ExcessOneAndFive => ret_size[1][1] = 200

\* C4 witness: getSize() has answered for the example's model
C4_Witness ==
    /\ ret_size # <<>>
    /\ ExcessOneAndFive
    /\ getGridSize(Built)[1] > 0

\* C5: the z size that getSize() returns is maxCorner.z - minCorner.z over the
\* sensor, the chip and the support layers; with one support layer of thickness 2
\* on the chip side it is sensorThickness + chipThickness + 2 (40 units).
C5_DepthNotMirrored ==
    ret_size # <<>> =>
        /\ ret_size[1][3] = MaxCorner(Built, 3) - MinCorner(Built, 3)
        /\ ( Len(Stored) = 1 /\ Stored[1].location_ = CHIP /\ Stored[1].size_[3] = 40 )
           => ret_size[1][3] = Built.sensor_thickness_ + Built.chip_thickness_ + 40

\* C5 witness: getSize() has answered for a model whose one support layer, of
\* thickness 2, is on the chip side of a chip that has a thickness
C5_Witness ==
    /\ ret_size # <<>>
    /\ Len(Stored) = 1 /\ Stored[1].location_ = CHIP /\ Stored[1].size_[3] = 40
    /\ Built.chip_thickness_ > 0
    /\ ret_size[1][3] # 2 * LargerExtent(Built, 3)

\* The header section as the constructor reads it
Config == getHeaderConfiguration(reader)

\* The steps of the constructor in their order
StageNo(at) ==
    CASE at = "pixel_grid" -> 1 [] at = "sensor_excess" -> 2 [] at = "implant_size" -> 3
      [] at = "implant_offset" -> 4 [] at = "chip_thickness" -> 5 [] at = "support" -> 6
      [] at = "constructed" -> 7

\* The constructor has passed the step at, or has thrown in it
Decided(at) ==
    \/ StageNo(pc) > StageNo(at)
    \/ pc = at /\ error # <<>>

\* The constructor threw e in the step at, and the caller holds nothing
FailedAt(at, e) == pc = at /\ error = <<e>> /\ model = <<>>

\* Construction has ended, with a model or with an exception
Ended == pc = "constructed" \/ error # <<>>

Shaped(config, key, n) == has(config, key) /\ Len(config[key]) = n
ShapedIfSet(config, key, n) == has(config, key) => Len(config[key]) = n

\* The required keys are present, and the sensor excess keys are scalars where set
RequiredPresent ==
    /\ Shaped(Config, "number_of_pixels", 2)
    /\ Shaped(Config, "pixel_size", 2)
    /\ Shaped(Config, "sensor_thickness", 1)
    /\ \A key \in { "sensor_excess", "sensor_excess_top", "sensor_excess_bottom",
                    "sensor_excess_left", "sensor_excess_right" } :
          ShapedIfSet(Config, key, 1)

\* implant_size is not set, or is a vector of two or of three components
ImplantSizeShaped ==
    has(Config, "implant_size") => Len(Config["implant_size"]) \in {2, 3}

\* implant_offset is not set, or is a vector of two components
ImplantOffsetShaped == ShapedIfSet(Config, "implant_offset", 2)

\* The implant size that the file declares
DeclaredImplantSize ==
    IF ~has(Config, "implant_size")
    THEN <<Config["pixel_size"][1], Config["pixel_size"][2], 0>>
    ELSE IF Len(Config["implant_size"]) = 2
    THEN <<Config["implant_size"][1], Config["implant_size"][2], 0>>
    ELSE Config["implant_size"]

\* The implant offset that the file declares
DeclaredImplantOffset ==
    IF has(Config, "implant_offset") THEN Config["implant_offset"] ELSE <<0, 0>>

\* x <= pixelSize.x, y <= pixelSize.y, z <= sensorThickness
WithinBounds(size) ==
    /\ size[1] <= Config["pixel_size"][1]
    /\ size[2] <= Config["pixel_size"][2]
    /\ size[3] <= Config["sensor_thickness"][1]

\* |offset| + size/2 <= pixel/2 on both axes, doubled
InCell(offset, size, pixel) ==
    /\ 2 * Abs(offset[1]) + size[1] <= pixel[1]
    /\ 2 * Abs(offset[2]) + size[2] <= pixel[2]

InvalidValue(key) == Exception("InvalidValueError", key)

C6_RejectedWitness ==
    /\ FailedAt("implant_size", InvalidValue("implant_size"))
    /\ RequiredPresent /\ ImplantSizeShaped
    /\ DeclaredImplantSize[3] > Config["sensor_thickness"][1]

\* C7, as amended: every constructed model has |implantOffset| + implantSize/2 <=
\* pixelSize/2 on x and on y; the bound is inclusive, an offset (0,0) with an
\* implant as large as the pixel is accepted; an offset and size that exceed it
\* on either axis make construction fail with an InvalidValue error, naming
\* implant_offset when the implant size is within its own bounds and naming
\* implant_size when it is not.
C7_ImplantInCell ==
    /\ model # <<>> =>
          InCell(Built.implant_offset_, Built.implant_size_, Built.pixel_size_)
    /\ ( /\ RequiredPresent /\ ImplantSizeShaped /\ ImplantOffsetShaped
         /\ Decided("implant_offset") \/ (pc = "implant_size" /\ error # <<>>) ) =>
          IF InCell(DeclaredImplantOffset, DeclaredImplantSize, Config["pixel_size"])
          THEN WithinBounds(DeclaredImplantSize) =>
                  StageNo(pc) > StageNo("implant_offset")
          ELSE IF WithinBounds(DeclaredImplantSize)
               THEN FailedAt("implant_offset", InvalidValue("implant_offset"))
               ELSE FailedAt("implant_size", InvalidValue("implant_size"))

\* C7 as stated: every offset and size that exceed the bound make construction
\* fail with an InvalidValue error naming implant_offset.
C7_Original ==
    /\ model # <<>> =>
          InCell(Built.implant_offset_, Built.implant_size_, Built.pixel_size_)
    /\ (RequiredPresent /\ ImplantSizeShaped /\ ImplantOffsetShaped /\ Ended) =>
          IF InCell(DeclaredImplantOffset, DeclaredImplantSize, Config["pixel_size"])
          THEN WithinBounds(DeclaredImplantSize) =>
                  StageNo(pc) > StageNo("implant_offset")
          ELSE FailedAt("implant_offset", InvalidValue("implant_offset"))

\* C7 witness: offset (0,0) and an implant exactly as large as the pixel have
\* passed the check
C7_Witness ==
    /\ StageNo(pc) > StageNo("implant_offset")
    /\ has(Config, "implant_offset") /\ has(Config, "implant_size")
    /\ self.implant_offset_ = <<0, 0>>
    /\ self.implant_size_[1] = self.pixel_size_[1]
    /\ self.implant_size_[2] = self.pixel_size_[2]

\* C7: an offset that moves a smaller implant over the edge of the cell was rejected
C7_RejectedWitness ==
    /\ FailedAt("implant_offset", InvalidValue("implant_offset"))
    /\ WithinBounds(DeclaredImplantSize)
    /\ DeclaredImplantSize[1] < Config["pixel_size"][1]

\* C8: construction is all-or-nothing.  Once a step has thrown, the caller holds
\* no model and no query has answered, whatever the constructor had stored by
\* then; a model that the caller holds has every field validated and one layer for
\* each "support" section of the file.
C8_AllOrNothing ==
    /\ error # <<>> =>
          /\ model = <<>>
          /\ ret_layers = <<>> /\ ret_size = <<>>
          /\ pc # "constructed"
    /\ (ret_layers # <<>> \/ ret_size # <<>>) => model # <<>>
    /\ model # <<>> =>
          /\ error = <<>> /\ pc = "constructed"
          /\ Built = self
          /\ Len(Stored) = Len(Declared)
          /\ RequiredPresent
          /\ WithinBounds(Built.implant_size_)
          /\ InCell(Built.implant_offset_, Built.implant_size_, Built.pixel_size_)
          /\ \A k \in DOMAIN Stored :
                /\ Stored[k].location_ \in {SENSOR, CHIP, ABSOLUTE}
                /\ Stored[k].size_[3] = Declared[k].config["thickness"][1]

\* C8 witness: a support section was rejected after two earlier ones had been
\* appended to the object, and the caller holds nothing
C8_Witness ==
    /\ pc = "support" /\ error # <<>>
    /\ Len(self.support_layers_) = 2
    /\ idx = 3
    /\ model = <<>>

\* C9: implant_size of three components is stored as it is, of two components
\* (a, b) as (a, b, 0), and when it is not set as (pixelSize.x, pixelSize.y, 0);
\* a value of any other shape makes the 2D read's error leave the constructor,
\* and so does a violated bound: nothing else is caught.
C9_ImplantResolution ==
    (RequiredPresent /\ Decided("implant_size")) =>
        IF ~ImplantSizeShaped
        THEN FailedAt("implant_size", Exception("InvalidKeyError", "implant_size"))
        ELSE IF StageNo(pc) > StageNo("implant_size")
        THEN /\ self.implant_size_ = DeclaredImplantSize
             /\ WithinBounds(DeclaredImplantSize)
        ELSE /\ FailedAt("implant_size", InvalidValue("implant_size"))
             /\ ~WithinBounds(DeclaredImplantSize)
             /\ self.implant_size_ = NewObject.implant_size_

\* C9 witness: a 2D implant_size was stored with z = 0
C9_Witness ==
    /\ StageNo(pc) > StageNo("implant_size")
    /\ Shaped(Config, "implant_size", 2)
    /\ self.implant_size_ = <<Config["implant_size"][1], Config["implant_size"][2], 0>>
    /\ self.implant_size_[1] # self.pixel_size_[1]

\* C9: an implant_size that is neither 2D nor 3D has aborted construction
C9_PropagatedWitness ==
    /\ FailedAt("implant_size", Exception("InvalidKeyError", "implant_size"))
    /\ has(Config, "implant_size")
    /\ Len(Config["implant_size"]) \notin {2, 3}

\* The text is word in some casing
IsCasingOf(text, word) ==
    /\ Len(text) = Len(word)
    /\ \A i \in DOMAIN text :
          \/ text[i] = word[i]
          \/ \E j \in DOMAIN UpperLower : UpperLower[j] = <<text[i], word[i]>>

\* The location that the k-th "support" section declares
DeclaredLocation(k) ==
    IF has(Declared[k].config, "location") THEN Declared[k].config["location"] ELSE CHIP

IsLocation(text) == \E word \in {SENSOR, CHIP, ABSOLUTE} : IsCasingOf(text, word)

\* The constructor threw in the support section at idx once it had read its
\* thickness and size
ThrewPastSize ==
    /\ pc = "support" /\ error # <<>>
    /\ Shaped(Declared[idx].config, "thickness", 1)
    /\ Shaped(Declared[idx].config, "size", 2)

\* What C10 says of the accepted locations
C10_Accepted ==
    /\ Len(self.support_layers_) = idx - 1
    /\ \A k \in DOMAIN self.support_layers_ :
          /\ self.support_layers_[k].location_ \in {SENSOR, CHIP, ABSOLUTE}
          /\ IsCasingOf(DeclaredLocation(k), self.support_layers_[k].location_)
    /\ \A k \in DOMAIN Declared :
          (IsLocation(DeclaredLocation(k)) /\ ThrewPastSize /\ idx = k) =>
              error[1].key # "location"

C10_DefaultWitness ==
    /\ pc = "constructed"
    /\ \E k \in DOMAIN Stored :
          ~has(Declared[k].config, "location") /\ Stored[k].location_ = CHIP

(***************************************************************************)
(* Sensor excess                                                           *)
(***************************************************************************)
\* The keys of the four sides, in the order of sensor_excess_
ExcessKeys ==
    <<"sensor_excess_top", "sensor_excess_right", "sensor_excess_bottom",
      "sensor_excess_left">>

\* The excess that the file declares for a side
DeclaredExcess(key) ==
    IF has(Config, key) THEN Config[key][1]
    ELSE IF has(Config, "sensor_excess") THEN Config["sensor_excess"][1]
    ELSE 0

\* The file sets, of the five excess keys, exactly these
ExcessKeysSet(keys) ==
    (({"sensor_excess"} \cup {ExcessKeys[i] : i \in 1..4}) \cap DOMAIN Config) = keys

\* The constructor has read the sensor excess
ExcessRead == RequiredPresent /\ StageNo(pc) > StageNo("sensor_excess")

\* C11: each of the four sensor excess values (top, bottom, left, right) is the
\* value of its own key when the key is set, otherwise the value of sensor_excess,
\* and 0 when that is not set either; sensor_excess = 5 alone gives 5 on all four
\* sides, and sensor_excess_top = 2 with it gives top = 2 and 5 on the other three
\* (100 and 40 units of 0.05).
C11_SensorExcessDefaults ==
    ExcessRead =>
        /\ \A i \in 1..4 : self.sensor_excess_[i] = DeclaredExcess(ExcessKeys[i])
        /\ (ExcessKeysSet({"sensor_excess"}) /\ Config["sensor_excess"] = <<100>>)
              => self.sensor_excess_ = <<100, 100, 100, 100>>
        /\ (/\ ExcessKeysSet({"sensor_excess", "sensor_excess_top"})
            /\ Config["sensor_excess"] = <<100>>
            /\ Config["sensor_excess_top"] = <<40>>)
              => self.sensor_excess_ = <<40, 100, 100, 100>>

\* A model built from sensor_excess = 5 and sensor_excess_top = 2
C11_Witness ==
    /\ pc = "constructed"
    /\ ExcessKeysSet({"sensor_excess", "sensor_excess_top"})
    /\ Config["sensor_excess"] = <<100>>
    /\ Config["sensor_excess_top"] = <<40>>
    /\ Built.sensor_excess_ = <<40, 100, 100, 100>>

\* A model built from sensor_excess = 5 alone
C11_SharedWitness ==
    /\ pc = "constructed"
    /\ ExcessKeysSet({"sensor_excess"})
    /\ Built.sensor_excess_ = <<100, 100, 100, 100>>

(***************************************************************************)
(* Configurations                                                          *)
(***************************************************************************)
\* The positions of the named and of the unnamed sections of the file
NamedAt == {i \in DOMAIN reader : reader[i].name # ""}
UnnamedAt == {i \in DOMAIN reader : reader[i].name = ""}

\* The k-th named section of the file
NamedSection(k) ==
    reader[CHOOSE i \in NamedAt : Cardinality({j \in NamedAt : j <= i}) = k]

\* The keys that unnamed sections set, and the last unnamed section setting a key
GlobalKeys == UNION {DOMAIN reader[i].config : i \in UnnamedAt}
LastSetting(key) == Greatest({i \in UnnamedAt : key \in DOMAIN reader[i].config})

\* Two unnamed sections setting different keys, then one section "support"
TwoUnnamedOneSupport ==
    /\ Len(reader) = 3
    /\ reader[1].name = "" /\ reader[2].name = "" /\ reader[3].name = "support"
    /\ DOMAIN reader[1].config \cap DOMAIN reader[2].config = {}

C12_ExampleWitness ==
    /\ ret_configs # <<>>
    /\ TwoUnnamedOneSupport
    /\ Len(ret_configs[1]) = 2

(***************************************************************************)
(* Queries                                                                 *)
(***************************************************************************)
\* A result that has been returned is returned again by the next call
SameAgain(ret, next_ret) == ret # <<>> => next_ret = ret

IsChipLayer(layer) == layer.location_ = CHIP

\* The placed layers of a model that has only the given layers
PlacedAlone(layers) == getSupportLayers(WithLayers(Built, layers))

\* The k-th returned layer is the one that the k-th "support" section declares
AsDeclared(layer, k) ==
    /\ layer.size_ = << Declared[k].config["size"][1], Declared[k].config["size"][2],
                        Declared[k].config["thickness"][1] >>
    /\ IsCasingOf(DeclaredLocation(k), layer.location_)

\* Layers of location, other, location in this order, all of them thick
Interleaved(layers, location, other) ==
    \E i \in DOMAIN layers, j \in DOMAIN layers, k \in DOMAIN layers :
        /\ i < j /\ j < k
        /\ layers[i].location_ = location /\ layers[i].size_[3] > 0
        /\ layers[j].location_ = other /\ layers[j].size_[3] > 0
        /\ layers[k].location_ = location /\ layers[k].size_[3] > 0

\* C14: getSupportLayers() returns as many layers as there are "support"
\* sections, in the order of their declaration, and the two stacks do not
\* influence each other: the layers on the sensor side are placed where they
\* would be with the layers of every other location taken out of the
\* declaration, and so are the layers on the chip side.
C14_IndependentStacks ==
    ret_layers # <<>> =>
        LET placed == ret_layers[1] IN
        /\ Len(placed) = Len(Declared)
        /\ \A k \in DOMAIN placed : AsDeclared(placed[k], k)
        /\ SelectSeq(placed, IsSensorLayer) = PlacedAlone(SelectSeq(Stored, IsSensorLayer))
        /\ SelectSeq(placed, IsChipLayer) = PlacedAlone(SelectSeq(Stored, IsChipLayer))

\* The placed layers of a declaration with a sensor layer between two chip layers
C14_Witness ==
    /\ ret_layers # <<>>
    /\ Interleaved(ret_layers[1], CHIP, SENSOR)

\* The placed layers of a declaration with a chip layer between two sensor layers
C14_SensorWitness ==
    /\ ret_layers # <<>>
    /\ Interleaved(ret_layers[1], SENSOR, CHIP)

(***************************************************************************)
(* The envelope                                                            *)
(***************************************************************************)
\* The two ends of an element along axis a
Upper(e, a) == e.center[a] + Half(e.size[a])
Lower(e, a) == e.center[a] - Half(e.size[a])

\* No element has a negative size
NonNegativeSizes(m) == \A e \in Elements(m), a \in 1..3 : e.size[a] >= 0

\* A support layer reaches beyond the sensor and the chip along axis a
LayerBeyond(m, a) ==
    \E k \in DOMAIN getSupportLayers(m) :
        LET layer == getSupportLayers(m)[k]
            e == [center |-> layer.center_, size |-> layer.size_]
        IN  \/ /\ Upper(e, a) > getSensorCenter(m)[a] + Half(getSensorSize(m)[a])
               /\ Upper(e, a) > getChipCenter(m)[a] + Half(getChipSize(m)[a])
            \/ /\ Lower(e, a) < getSensorCenter(m)[a] - Half(getSensorSize(m)[a])
               /\ Lower(e, a) < getChipCenter(m)[a] - Half(getChipSize(m)[a])

\* C15: the size that getSize() returns encloses the sensor, the chip and every
\* layer of getSupportLayers(): along x and y each element lies within
\* getCenter() -/+ half the size, along z it lies between the min and the max
\* corner, which are the size along z apart; for every mix of layers at sensor,
\* chip and absolute with sizes that are not negative.
C15_EnvelopeEncloses ==
    (ret_size # <<>> /\ NonNegativeSizes(Built)) =>
        LET size == ret_size[1]
            center == getCenter(Built)
            box == Corners(Built)
        IN  /\ \A e \in Elements(Built) :
                  /\ \A a \in 1..2 :
                        /\ 2 * (Upper(e, a) - center[a]) <= size[a]
                        /\ 2 * (center[a] - Lower(e, a)) <= size[a]
                  /\ box.min[3] <= Lower(e, 3)
                  /\ Upper(e, 3) <= box.max[3]
            /\ box.max[3] - box.min[3] = size[3]
            /\ \A e1 \in Elements(Built), e2 \in Elements(Built) :
                  Upper(e1, 3) - Lower(e2, 3) <= size[3]

\* The size of a model with layers at sensor, chip and absolute, of which one
\* reaches beyond the sensor and the chip in x and one in z
C15_Witness ==
    /\ ret_size # <<>>
    /\ NonNegativeSizes(Built)
    /\ \A location \in {SENSOR, CHIP, ABSOLUTE} :
          \E k \in DOMAIN Stored : Stored[k].location_ = location
    /\ LayerBeyond(Built, 1)
    /\ LayerBeyond(Built, 3)

(***************************************************************************)
(* The sensor volume and the implants                                      *)
(***************************************************************************)
Registered(name) == name \in DOMAIN external

\* C16: when the implants of the model are deeper than epsilon, build() makes
\* the volume registered as "sensor_log" from the sensor box with the union of
\* the implants subtracted, and registers the implants; when they are not, it
\* makes "sensor_log" from the plain sensor box and registers no implants.
C16_ImplantsExcised ==
    Registered("sensor_log") =>
        /\ HasImplants(Built) =>
              /\ external["sensor_log"].solid = "sensor_implant_subtraction"
              /\ external["sensor_log"].solid = SensorSolid(Built)
              /\ Registered("implants_log")
        /\ ~HasImplants(Built) =>
              /\ external["sensor_log"].solid = "sensor_box"
              /\ ~Registered("implants_log")

====
